---- MODULE Spec2Model ----
(***************************************************************************)
(* Model of src/src/tree.rs: an arena-backed ordered tree.  Nodes live in  *)
(* Tree.nodes (a Vec), refer to each other by index, and freed slots are   *)
(* chained through next_sib into a free list headed by Tree.free.          *)
(*                                                                         *)
(* Encoding.  Option<usize> is an integer: None is -1, Some(i) is i.       *)
(* Tree.nodes is a sequence; the slot with id i is nodes[i + 1].           *)
(* Option<T> payloads are integers: None is -1, Some(d) is d in Data.      *)
(* Every private and public method of Tree is an operator from a tree      *)
(* record [nodes, free, root, len] to its result, with the assignments of  *)
(* the Rust body applied one after the other in source order.              *)
(***************************************************************************)
EXTENDS Integers, Sequences, FiniteSets, TLC

\* ------------------------------------------------------------------ bounds
\* Largest number of slots Tree.nodes may grow to.
MaxSlots == 3
\* Number of distinct payload values.
MaxData == 1
\* Largest number of public calls made on one tree.
MaxCalls == 5

None == -1
Data == 1..MaxData
\* Ids a caller may pass: every slot index and one index past the arena.
Ids == 0..MaxSlots
Position == {"FirstChild", "LastChild", "SiblingBefore", "SiblingAfter"}
VARIABLES nodes, free, root, len, old, last, calls
vars == <<nodes, free, root, len, old, last, calls>>

\* The Tree value the methods below take as `self`.
self == [nodes |-> nodes, free |-> free, root |-> root, len |-> len]

\* Node::new(data)
Node_new(data) ==
    [parent |-> None, prev_sib |-> None, next_sib |-> None,
     first_child |-> None, last_child |-> None, data |-> data]

\* self.nodes[id]
at(t, id) == t.nodes[id + 1]

\* Tree::new()
Tree_new == [nodes |-> <<>>, free |-> None, root |-> None, len |-> 0]

\* Tree::new_with_root(data)
new_with_root(data) ==
    [nodes |-> <<Node_new(data)>>, free |-> None, root |-> 0, len |-> 1]

\* valid_node with the test of the payload left out: every slot of the arena
\* passes, occupied or free.
valid_node_in_range(t, id) ==
    IF id >= Len(t.nodes) THEN "InvalidId"
    ELSE "Ok"

\* valid_node: Ok or Err(InvalidId)
valid_node(t, id) ==
    IF id >= Len(t.nodes) THEN "InvalidId"
    ELSE IF at(t, id).data = None THEN "InvalidId"
    ELSE "Ok"

\* valid_sib with the test `id == self.root.unwrap()` left out.
valid_sib_without_root_test(t, id) ==
    IF id >= Len(t.nodes) THEN "InvalidId"
    ELSE IF at(t, id).data = None THEN "InvalidId"
    ELSE "Ok"

\* valid_sib: as valid_node, then Err(CantBeRoot) for the root.  It is only
\* reached with an occupied slot, so root.unwrap() is applied to the root
\* field as it stands.
valid_sib(t, id) ==
    IF id >= Len(t.nodes) THEN "InvalidId"
    ELSE IF at(t, id).data = None THEN "InvalidId"
    ELSE IF id = t.root THEN "CantBeRoot"
    ELSE "Ok"

\* push_free: clear the slot, chain it in front of the free list, len -= 1.
\* len is an integer here and may go below 0; remove turns that into the
\* panic or the wrap-around of the build.
push_free(t, id) ==
    [t EXCEPT !.nodes[id + 1] = [parent |-> None, prev_sib |-> None,
                                 next_sib |-> t.free, first_child |-> None,
                                 last_child |-> None, data |-> None],
              !.free = id,
              !.len = t.len - 1]

\* pop_free: [t, id]; id = None when the free list is empty.
pop_free(t) ==
    IF t.free # None
    THEN [t |-> [t EXCEPT !.free = at(t, t.free).next_sib,
                          !.nodes[t.free + 1].next_sib = None],
          id |-> t.free]
    ELSE [t |-> t, id |-> None]

\* get_node: [t, id]
get_node(t, data) ==
    LET t1 == [t EXCEPT !.len = t.len + 1]
        p == pop_free(t1)
    IN IF p.id # None
       THEN [t |-> [p.t EXCEPT !.nodes[p.id + 1].data = data], id |-> p.id]
       ELSE [t |-> [t1 EXCEPT !.nodes = Append(t1.nodes, Node_new(data))],
             id |-> Len(t1.nodes)]

append_child(t, parent_id, new_id) ==
    LET t1 == [t EXCEPT !.nodes[new_id + 1].prev_sib = at(t, parent_id).last_child]
        prev == at(t1, new_id).prev_sib
        t2 == IF prev # None
              THEN [t1 EXCEPT !.nodes[prev + 1].next_sib = new_id]
              ELSE t1
        t3 == [t2 EXCEPT !.nodes[new_id + 1].parent = parent_id]
        t4 == [t3 EXCEPT !.nodes[parent_id + 1].last_child = new_id]
    IN IF at(t4, parent_id).first_child = None
       THEN [t4 EXCEPT !.nodes[parent_id + 1].first_child = new_id]
       ELSE t4

prepend_child(t, parent_id, new_id) ==
    LET t1 == [t EXCEPT !.nodes[new_id + 1].next_sib = at(t, parent_id).first_child]
        next == at(t1, new_id).next_sib
        t2 == IF next # None
              THEN [t1 EXCEPT !.nodes[next + 1].prev_sib = new_id]
              ELSE t1
        t3 == [t2 EXCEPT !.nodes[new_id + 1].parent = parent_id]
        t4 == [t3 EXCEPT !.nodes[parent_id + 1].first_child = new_id]
    IN IF at(t4, parent_id).last_child = None
       THEN [t4 EXCEPT !.nodes[parent_id + 1].last_child = new_id]
       ELSE t4

add_sibling_before(t, sibling_id, new_id) ==
    LET t1 == [t EXCEPT !.nodes[new_id + 1].next_sib = sibling_id]
        t2 == [t1 EXCEPT !.nodes[new_id + 1].prev_sib = at(t1, sibling_id).prev_sib]
        t3 == [t2 EXCEPT !.nodes[new_id + 1].parent = at(t2, sibling_id).parent]
        t4 == [t3 EXCEPT !.nodes[sibling_id + 1].prev_sib = new_id]
        prev_sib_id == at(t4, new_id).prev_sib
        parent_id == at(t4, new_id).parent
    IN IF prev_sib_id # None
       THEN [t4 EXCEPT !.nodes[prev_sib_id + 1].next_sib = new_id]
       ELSE IF parent_id # None
       THEN [t4 EXCEPT !.nodes[parent_id + 1].first_child = new_id]
       ELSE t4

add_sibling_after(t, sibling_id, new_id) ==
    LET t1 == [t EXCEPT !.nodes[new_id + 1].prev_sib = sibling_id]
        t2 == [t1 EXCEPT !.nodes[new_id + 1].next_sib = at(t1, sibling_id).next_sib]
        t3 == [t2 EXCEPT !.nodes[new_id + 1].parent = at(t2, sibling_id).parent]
        t4 == [t3 EXCEPT !.nodes[sibling_id + 1].next_sib = new_id]
        next_sib_id == at(t4, new_id).next_sib
        parent_id == at(t4, new_id).parent
    IN IF next_sib_id # None
       THEN [t4 EXCEPT !.nodes[next_sib_id + 1].prev_sib = new_id]
       ELSE IF parent_id # None
       THEN [t4 EXCEPT !.nodes[parent_id + 1].last_child = new_id]
       ELSE t4

attach(t, attaching, in_position, node) ==
    CASE in_position = "FirstChild"    -> prepend_child(t, node, attaching)
      [] in_position = "LastChild"     -> append_child(t, node, attaching)
      [] in_position = "SiblingBefore" -> add_sibling_before(t, node, attaching)
      [] in_position = "SiblingAfter"  -> add_sibling_after(t, node, attaching)

\* decouple: splice id out of its sibling list.  id's own parent, prev_sib
\* and next_sib fields are not written.
decouple(t, id) ==
    LET prev == at(t, id).prev_sib
        parent == at(t, id).parent
        t1 == IF prev # None
              THEN [t EXCEPT !.nodes[prev + 1].next_sib = at(t, id).next_sib]
              ELSE IF parent # None
              THEN [t EXCEPT !.nodes[parent + 1].first_child = at(t, id).next_sib]
              ELSE t
        next == at(t1, id).next_sib
        parent1 == at(t1, id).parent
    IN IF next # None
       THEN [t1 EXCEPT !.nodes[next + 1].prev_sib = at(t1, id).prev_sib]
       ELSE IF parent1 # None
       THEN [t1 EXCEPT !.nodes[parent1 + 1].last_child = at(t1, id).prev_sib]
       ELSE t1

\* len()
len_of(t) == t.len

\* ------------------------------------------------------------- traversal
\* The loop `while let Some(child_id) = child` of descendants_of_helper,
\* entered with `child`.  The walk reads first_child and next_sib only and
\* keeps no visited set, so it fails to terminate exactly when it meets a
\* slot again on its own path of first_child/next_sib steps; that outcome
\* is reported as hang = TRUE.  Otherwise ids is the pushed sequence.
RECURSIVE descendants_loop(_, _, _)
descendants_loop(t, child, path) ==
    IF child = None THEN [hang |-> FALSE, ids |-> <<>>]
    ELSE IF child \in path THEN [hang |-> TRUE, ids |-> <<>>]
    ELSE LET below == descendants_loop(t, at(t, child).first_child, path \cup {child})
             rest == descendants_loop(t, at(t, child).next_sib, path \cup {child})
         IN IF below.hang \/ rest.hang
            THEN [hang |-> TRUE, ids |-> <<>>]
            ELSE [hang |-> FALSE, ids |-> <<child>> \o below.ids \o rest.ids]

descendants_of_helper(t, id) == descendants_loop(t, at(t, id).first_child, {})

\* descendants_of: [res, hang, ids]
descendants_of(t, id) ==
    IF valid_node(t, id) # "Ok"
    THEN [res |-> "InvalidId", hang |-> FALSE, ids |-> <<>>]
    ELSE LET d == descendants_of_helper(t, id)
         IN [res |-> "Ok", hang |-> d.hang, ids |-> d.ids]

\* sub_tree: id followed by its descendants
sub_tree(t, id) ==
    IF valid_node(t, id) # "Ok"
    THEN [res |-> "InvalidId", hang |-> FALSE, ids |-> <<>>]
    ELSE LET d == descendants_of_helper(t, id)
         IN [res |-> "Ok", hang |-> d.hang, ids |-> <<id>> \o d.ids]

\* The loop of sub_tree_info_helper entered with `child`, whose parent is at
\* depth cur_depth: [hang, infos, count], count being the number of times
\* `ids[index].child_count += 1` ran.
RECURSIVE sub_tree_info_loop(_, _, _, _)
sub_tree_info_loop(t, child, cur_depth, path) ==
    IF child = None THEN [hang |-> FALSE, infos |-> <<>>, count |-> 0]
    ELSE IF child \in path THEN [hang |-> TRUE, infos |-> <<>>, count |-> 0]
    ELSE LET below == sub_tree_info_loop(t, at(t, child).first_child,
                                         cur_depth + 1, path \cup {child})
             rest == sub_tree_info_loop(t, at(t, child).next_sib,
                                        cur_depth, path \cup {child})
         IN IF below.hang \/ rest.hang
            THEN [hang |-> TRUE, infos |-> <<>>, count |-> 0]
            ELSE [hang |-> FALSE,
                  infos |-> <<[id |-> child, child_count |-> below.count,
                               depth |-> cur_depth + 1]>>
                            \o below.infos \o rest.infos,
                  count |-> rest.count + 1]

sub_tree_info_helper(t, id, cur_depth) ==
    LET l == sub_tree_info_loop(t, at(t, id).first_child, cur_depth, {})
    IN [hang |-> l.hang,
        infos |-> <<[id |-> id, child_count |-> l.count, depth |-> cur_depth]>>
                  \o l.infos]

\* sub_tree_info: [res, hang, infos]
sub_tree_info(t, id) ==
    IF valid_node(t, id) # "Ok"
    THEN [res |-> "InvalidId", hang |-> FALSE, infos |-> <<>>]
    ELSE LET h == sub_tree_info_helper(t, id, 0)
         IN [res |-> "Ok", hang |-> h.hang, infos |-> h.infos]

\* The loop of sub_tree_depth_helper entered with `child`: [hang, ids].  The
\* recursion is cut by depth, so the walk fails to terminate exactly when one
\* of the sibling chains it follows meets a slot again; seen holds the slots
\* of the chain being followed.
RECURSIVE sub_tree_depth_loop(_, _, _, _)
sub_tree_depth_loop(t, child, depth, seen) ==
    IF child = None THEN [hang |-> FALSE, ids |-> <<>>]
    ELSE IF child \in seen THEN [hang |-> TRUE, ids |-> <<>>]
    ELSE LET below == IF depth > 0
                      THEN sub_tree_depth_loop(t, at(t, child).first_child,
                                               depth - 1, {})
                      ELSE [hang |-> FALSE, ids |-> <<>>]
             rest == sub_tree_depth_loop(t, at(t, child).next_sib, depth,
                                         seen \cup {child})
         IN IF below.hang \/ rest.hang
            THEN [hang |-> TRUE, ids |-> <<>>]
            ELSE [hang |-> FALSE, ids |-> <<child>> \o below.ids \o rest.ids]

sub_tree_depth_helper(t, id, depth) ==
    sub_tree_depth_loop(t, at(t, id).first_child, depth, {})

\* sub_tree_depth with `depth` handed to the helper in place of `depth - 1`:
\* it descends one level too far.
sub_tree_depth_one_deeper(t, id, depth) ==
    IF valid_node(t, id) # "Ok"
    THEN [res |-> "InvalidId", hang |-> FALSE, ids |-> <<>>]
    ELSE LET d == IF depth > 0 THEN sub_tree_depth_helper(t, id, depth)
                  ELSE [hang |-> FALSE, ids |-> <<>>]
         IN [res |-> "Ok", hang |-> d.hang, ids |-> <<id>> \o d.ids]

\* sub_tree_depth: [res, hang, ids]
sub_tree_depth(t, id, depth) ==
    IF valid_node(t, id) # "Ok"
    THEN [res |-> "InvalidId", hang |-> FALSE, ids |-> <<>>]
    ELSE LET d == IF depth > 0 THEN sub_tree_depth_helper(t, id, depth - 1)
                  ELSE [hang |-> FALSE, ids |-> <<>>]
         IN [res |-> "Ok", hang |-> d.hang, ids |-> <<id>> \o d.ids]

\* The loop of sub_tree_depth_info_helper entered with `child`, whose parent
\* is at depth cur_depth: [hang, infos, count].
RECURSIVE sub_tree_depth_info_loop(_, _, _, _, _)
sub_tree_depth_info_loop(t, child, cur_depth, target, seen) ==
    IF child = None THEN [hang |-> FALSE, infos |-> <<>>, count |-> 0]
    ELSE IF child \in seen THEN [hang |-> TRUE, infos |-> <<>>, count |-> 0]
    ELSE LET below == sub_tree_depth_info_loop(t, at(t, child).first_child,
                                               cur_depth + 1, target, {})
             own == IF cur_depth < target
                    THEN [hang |-> below.hang,
                          infos |-> <<[id |-> child, child_count |-> below.count,
                                       depth |-> cur_depth + 1]>> \o below.infos]
                    ELSE [hang |-> FALSE, infos |-> <<>>]
             rest == sub_tree_depth_info_loop(t, at(t, child).next_sib,
                                              cur_depth, target, seen \cup {child})
         IN IF own.hang \/ rest.hang
            THEN [hang |-> TRUE, infos |-> <<>>, count |-> 0]
            ELSE [hang |-> FALSE, infos |-> own.infos \o rest.infos,
                  count |-> rest.count + 1]

sub_tree_depth_info_helper(t, id, cur_depth, target) ==
    LET l == sub_tree_depth_info_loop(t, at(t, id).first_child, cur_depth,
                                      target, {})
    IN [hang |-> l.hang,
        infos |-> <<[id |-> id, child_count |-> l.count, depth |-> cur_depth]>>
                  \o l.infos]

\* sub_tree_depth_info: [res, hang, infos]
sub_tree_depth_info(t, id, depth) ==
    IF valid_node(t, id) # "Ok"
    THEN [res |-> "InvalidId", hang |-> FALSE, infos |-> <<>>]
    ELSE LET h == sub_tree_depth_info_helper(t, id, 0, depth)
         IN [res |-> "Ok", hang |-> h.hang, infos |-> h.infos]

\* The link getters and data_at: [res, ret]
parent_of(t, id) ==
    IF valid_node(t, id) # "Ok" THEN [res |-> "InvalidId", ret |-> None]
    ELSE [res |-> "Ok", ret |-> at(t, id).parent]

next_sib_of(t, id) ==
    IF valid_node(t, id) # "Ok" THEN [res |-> "InvalidId", ret |-> None]
    ELSE [res |-> "Ok", ret |-> at(t, id).next_sib]

prev_sib_of(t, id) ==
    IF valid_node(t, id) # "Ok" THEN [res |-> "InvalidId", ret |-> None]
    ELSE [res |-> "Ok", ret |-> at(t, id).prev_sib]

first_child_of(t, id) ==
    IF valid_node(t, id) # "Ok" THEN [res |-> "InvalidId", ret |-> None]
    ELSE [res |-> "Ok", ret |-> at(t, id).first_child]

last_child_of(t, id) ==
    IF valid_node(t, id) # "Ok" THEN [res |-> "InvalidId", ret |-> None]
    ELSE [res |-> "Ok", ret |-> at(t, id).last_child]

data_at(t, id) ==
    IF valid_node(t, id) # "Ok" THEN [res |-> "InvalidId", ret |-> None]
    ELSE [res |-> "Ok", ret |-> at(t, id).data]

get_root(t) == t.root

\* The loop of children_of entered with `child`: [res, ids].  The loop calls
\* next_sib_of(child_id).unwrap(), which panics when the chain leads to a
\* slot that is not occupied, and it does not terminate when the chain meets
\* a slot again.
RECURSIVE children_loop(_, _, _)
children_loop(t, child, seen) ==
    IF child = None THEN [res |-> "Ok", ids |-> <<>>]
    ELSE IF next_sib_of(t, child).res # "Ok" THEN [res |-> "Panic", ids |-> <<>>]
    ELSE IF child \in seen THEN [res |-> "Hang", ids |-> <<>>]
    ELSE LET rest == children_loop(t, next_sib_of(t, child).ret, seen \cup {child})
         IN IF rest.res # "Ok" THEN rest
            ELSE [res |-> "Ok", ids |-> <<child>> \o rest.ids]

\* children_of: [res, ids]
children_of(t, id) ==
    IF valid_node(t, id) # "Ok" THEN [res |-> "InvalidId", ids |-> <<>>]
    ELSE children_loop(t, first_child_of(t, id).ret, {})

\* ------------------------------------------------------------- mutation
\* Every public method returns [t, res, ret]: the tree afterwards, the
\* outcome and the returned id (None when the method returns none).  res is
\* "Ok", a TreeErr, "Panic" (an unwrap on None / Err, or an arithmetic
\* overflow in a build with overflow checks) or "Hang" (a traversal that
\* does not terminate).  On "Panic" and "Hang" t is the tree before the call.
Result(t, res, ret) == [t |-> t, res |-> res, ret |-> ret]

\* new_node
new_node(t, data, in_position, node) ==
    LET v == IF in_position \in {"FirstChild", "LastChild"}
             THEN valid_node(t, node)
             ELSE valid_sib(t, node)
    IN IF v # "Ok" THEN Result(t, v, None)
       ELSE LET g == get_node(t, data)
            IN Result(attach(g.t, g.id, in_position, node), "Ok", g.id)

\* for child in ids { self.push_free(child) }
RECURSIVE push_free_all(_, _)
push_free_all(t, ids) ==
    IF ids = <<>> THEN t
    ELSE push_free_all(push_free(t, Head(ids)), Tail(ids))

\* remove.  checks is the build's overflow-checks setting (on in a debug
\* build, off in a release build): with it, the first `self.len -= 1` at
\* len = 0 panics; without it, len wraps, and the wrapped value 2^64 - k is
\* written -k.  The callers below take either setting at each call.
remove(t, checks, id) ==
    IF valid_node(t, id) # "Ok" THEN Result(t, "InvalidId", None)
    ELSE LET t1 == decouple(t, id)
             d == descendants_of(t1, id)
         IN IF d.hang THEN Result(t, "Hang", None)
            ELSE LET t2 == push_free(push_free_all(t1, d.ids), id)
                 IN IF checks /\ t2.len < 0
                    THEN Result(t, "Panic", None)
                    ELSE Result(t2, "Ok", None)

\* new_root: remove(root).unwrap() panics when remove returns Err.
new_root(t, checks, data) ==
    LET r == IF t.root # None THEN remove(t, checks, t.root)
             ELSE Result(t, "Ok", None)
    IN IF r.res = "InvalidId" THEN Result(t, "Panic", None)
       ELSE IF r.res # "Ok" THEN Result(t, r.res, None)
       ELSE LET g == get_node(r.t, data)
            IN Result([g.t EXCEPT !.root = g.id], "Ok", g.id)

\* make_root
make_root(t, checks, id) ==
    IF valid_node(t, id) # "Ok" THEN Result(t, "InvalidId", None)
    ELSE LET t1 == decouple(t, id)
             r == IF t1.root = None THEN Result(t, "Panic", None)
                  ELSE remove(t1, checks, t1.root)
         IN IF r.res = "InvalidId" THEN Result(t, "Panic", None)
            ELSE IF r.res # "Ok" THEN Result(t, r.res, None)
            ELSE Result([r.t EXCEPT !.root = id], "Ok", None)

\* i is an element of the sequence s
Contains(s, i) == \E k \in 1..Len(s) : s[k] = i

\* valid_move: "Ok", a TreeErr or "Hang"
valid_move(t, moving, new_place) ==
    IF valid_node(t, moving) # "Ok" THEN "InvalidId"
    ELSE IF valid_node(t, new_place) # "Ok" THEN "InvalidId"
    ELSE LET s == sub_tree(t, moving)
         IN IF s.hang THEN "Hang"
            ELSE IF Contains(s.ids, new_place) THEN "CantMoveIntoChild"
            ELSE "Ok"

\* move_to
move_to(t, moving, in_position, node) ==
    LET v == valid_move(t, moving, node)
    IN IF v # "Ok" THEN Result(t, v, None)
       ELSE Result(attach(decouple(t, moving), moving, in_position, node),
                   "Ok", None)

\* The loop of clone_children entered with old_child: [t, st, fuel].
\* st is "Ok", "Panic" (data.unwrap() on a free slot) or "Cut" (the clone
\* needs more than the fuel it was given; fuel counts get_node calls).
RECURSIVE clone_loop(_, _, _, _)
clone_loop(t, old_child, new_parent, fuel) ==
    IF old_child = None THEN [t |-> t, st |-> "Ok", fuel |-> fuel]
    ELSE IF at(t, old_child).data = None
    THEN [t |-> t, st |-> "Panic", fuel |-> fuel]
    ELSE IF fuel = 0 THEN [t |-> t, st |-> "Cut", fuel |-> fuel]
    ELSE LET g == get_node(t, at(t, old_child).data)
             t1 == append_child(g.t, new_parent, g.id)
             below == clone_loop(t1, at(t1, old_child).first_child, g.id, fuel - 1)
         IN IF below.st # "Ok" THEN below
            ELSE clone_loop(below.t, at(below.t, old_child).next_sib,
                            new_parent, below.fuel)

clone_children(t, old_parent, new_parent, fuel) ==
    clone_loop(t, at(t, old_parent).first_child, new_parent, fuel)

\* clone_node: [t, st, id]
clone_node(t, id, fuel) ==
    LET g == get_node(t, at(t, id).data)
        c == clone_children(g.t, id, g.id, fuel - 1)
    IN [t |-> c.t, st |-> c.st, id |-> g.id]

\* clone_to.  A clone that makes more than MaxSlots allocations is outside
\* the bound of the model ("Cut").
clone_to(t, cloning, in_position, node) ==
    IF valid_node(t, cloning) # "Ok" THEN Result(t, "InvalidId", None)
    ELSE IF valid_node(t, node) # "Ok" THEN Result(t, "InvalidId", None)
    ELSE LET c == clone_node(t, cloning, MaxSlots)
         IN IF c.st # "Ok" THEN Result(t, c.st, None)
            ELSE Result(attach(c.t, c.id, in_position, node), "Ok", c.id)

\* --------------------------------------------------------- state machine
\* last records the most recent call: its name and outcome and, unless the
\* call returned a TreeErr, its arguments and the id it returned; old is the
\* tree that call was made on; calls counts the calls made.  A call that
\* panics or hangs ends the process.  A call that returns a TreeErr returns
\* before its first assignment, so the calls that could follow it are the
\* calls that could have been made in its place: the caller modelled here
\* makes calls until one does not return Ok.
Call(op, id, pos, node, data, r) ==
    IF r.res \in {"Ok", "Panic", "Hang"}
    THEN [op |-> op, id |-> id, pos |-> pos, node |-> node, data |-> data,
          res |-> r.res, ret |-> r.ret]
    ELSE [op |-> op, id |-> None, pos |-> "None", node |-> None, data |-> None,
          res |-> r.res, ret |-> None]

Running == last.res = "Ok"

Step(r, l) ==
    /\ Running
    /\ calls < MaxCalls
    /\ r.res # "Cut"
    /\ Len(r.t.nodes) <= MaxSlots
    /\ nodes' = r.t.nodes
    /\ free' = r.t.free
    /\ root' = r.t.root
    /\ len' = r.t.len
    /\ old' = self
    /\ last' = l
    /\ calls' = calls + 1

Init ==
    \E t \in {Tree_new} \cup {new_with_root(d) : d \in Data} :
        /\ nodes = t.nodes
        /\ free = t.free
        /\ root = t.root
        /\ len = t.len
        /\ old = t
        /\ calls = 0
        /\ last = [op |-> IF t.root = None THEN "new" ELSE "new_with_root",
                   id |-> None, pos |-> "None", node |-> None,
                   data |-> IF t.root = None THEN None ELSE at(t, 0).data,
                   res |-> "Ok", ret |-> None]

NewNode ==
    \E data \in Data, pos \in Position, node \in Ids :
        LET r == new_node(self, data, pos, node)
        IN Step(r, Call("new_node", None, pos, node, data, r))

Remove ==
    \E id \in Ids, checks \in BOOLEAN :
        LET r == remove(self, checks, id)
        IN Step(r, Call("remove", id, "None", None, None, r))

NewRoot ==
    \E data \in Data, checks \in BOOLEAN :
        LET r == new_root(self, checks, data)
        IN Step(r, Call("new_root", None, "None", None, data, r))

MakeRoot ==
    \E id \in Ids, checks \in BOOLEAN :
        LET r == make_root(self, checks, id)
        IN Step(r, Call("make_root", id, "None", None, None, r))

MoveToCall(moving, pos, node) ==
    LET r == move_to(self, moving, pos, node)
    IN Step(r, Call("move_to", moving, pos, node, None, r))

CloneToCall(cloning, pos, node) ==
    LET r == clone_to(self, cloning, pos, node)
    IN Step(r, Call("clone_to", cloning, pos, node, None, r))

MoveTo ==
    \E moving \in Ids, pos \in Position, node \in Ids :
        MoveToCall(moving, pos, node)

CloneTo ==
    \E cloning \in Ids, pos \in Position, node \in Ids :
        CloneToCall(cloning, pos, node)

Next == NewNode \/ Remove \/ NewRoot \/ MakeRoot \/ MoveTo \/ CloneTo

Spec == Init /\ [][Next]_vars

\* The callers that never name the root as the reference of a sibling
\* position in move_to and clone_to: every behaviour of SpecUnderParent is a
\* behaviour of Spec.
SiblingOfRoot(pos, node) ==
    pos \in {"SiblingBefore", "SiblingAfter"} /\ node = root

MoveToUnderParent ==
    \E moving \in Ids, pos \in Position, node \in Ids :
        ~SiblingOfRoot(pos, node) /\ MoveToCall(moving, pos, node)

CloneToUnderParent ==
    \E cloning \in Ids, pos \in Position, node \in Ids :
        ~SiblingOfRoot(pos, node) /\ CloneToCall(cloning, pos, node)

NextUnderParent ==
    NewNode \/ Remove \/ NewRoot \/ MakeRoot \/ MoveToUnderParent
        \/ CloneToUnderParent

SpecUnderParent == Init /\ [][NextUnderParent]_vars

\* ------------------------------------------------------------ properties
\* Vocabulary of the properties below.
SlotIds(t) == 0..(Len(t.nodes) - 1)
Occupied(t) == {i \in SlotIds(t) : at(t, i).data # None}
FreeSlots(t) == {i \in SlotIds(t) : at(t, i).data = None}
ToSet(s) == {s[k] : k \in 1..Len(s)}
NoDuplicates(s) == \A j, k \in 1..Len(s) : j # k => s[j] # s[k]

\* The preorder traversal from the root; no ids when there is no root or the
\* root field names no occupied slot.
Preorder(t) ==
    IF t.root = None \/ valid_node(t, t.root) # "Ok"
    THEN [res |-> "Ok", hang |-> FALSE, ids |-> <<>>]
    ELSE sub_tree(t, t.root)

\* The slots met from `from` by next_sib steps, in order, stopping at None
\* or at the first slot met twice: [cyclic, ids].
RECURSIVE chain(_, _, _)
chain(t, from, seen) ==
    IF from = None THEN [cyclic |-> FALSE, ids |-> <<>>]
    ELSE IF from \in seen THEN [cyclic |-> TRUE, ids |-> <<>>]
    ELSE LET rest == chain(t, at(t, from).next_sib, seen \cup {from})
         IN [cyclic |-> rest.cyclic, ids |-> <<from>> \o rest.ids]

\* The child list of p: the chain from p's first_child.
ChildList(t, p) == chain(t, at(t, p).first_child, {})
\* The free list: the chain from the free head.
FreeList(t) == chain(t, t.free, {})

\* len equals the number of occupied slots and the number of ids of the
\* preorder traversal from the root, which ends and holds every occupied slot.
CountOk(t) ==
    LET pre == Preorder(t)
    IN /\ ~pre.hang
       /\ len_of(t) = Cardinality(Occupied(t))
       /\ len_of(t) = Len(pre.ids)
       /\ Occupied(t) \subseteq ToSet(pre.ids)

\* For every occupied p the chain from first_child ends, holds exactly the
\* occupied nodes whose parent is p, is doubly linked, and starts at the
\* only member without prev_sib and ends, at last_child, at the only member
\* without next_sib.
SiblingListsOk(t) ==
    \A p \in Occupied(t) :
        LET c == ChildList(t, p)
            n == Len(c.ids)
        IN /\ ~c.cyclic
           /\ ToSet(c.ids) = {i \in Occupied(t) : at(t, i).parent = p}
           /\ \A k \in 1..n :
                 /\ at(t, c.ids[k]).prev_sib = (IF k = 1 THEN None ELSE c.ids[k - 1])
                 /\ at(t, c.ids[k]).next_sib = (IF k = n THEN None ELSE c.ids[k + 1])
           /\ at(t, p).last_child = (IF n = 0 THEN None ELSE c.ids[n])

\* The parent links from i lead to a slot without parent in at most fuel
\* steps.
RECURSIVE ParentChainEnds(_, _, _)
ParentChainEnds(t, i, fuel) ==
    IF i = None THEN TRUE
    ELSE IF fuel = 0 THEN FALSE
    ELSE ParentChainEnds(t, at(t, i).parent, fuel - 1)

\* Every occupied slot is the root with parent None, or has an occupied
\* parent in whose child list it occurs exactly once; no parent cycle.
ParentsOk(t) ==
    \A i \in Occupied(t) :
        /\ ParentChainEnds(t, i, Len(t.nodes))
        /\ IF i = t.root THEN at(t, i).parent = None
           ELSE LET p == at(t, i).parent
                IN /\ p # None
                   /\ p \in Occupied(t)
                   /\ LET c == ChildList(t, p)
                      IN Cardinality({k \in 1..Len(c.ids) : c.ids[k] = i}) = 1

\* get_root() is None iff len() = 0, and a root Some(r) names an occupied slot.
RootOk(t) ==
    /\ (t.root = None) <=> (len_of(t) = 0)
    /\ t.root # None => valid_node(t, t.root) = "Ok"

\* The chain from the free head ends at None and visits exactly the free
\* slots, each once.
FreeListOk(t) ==
    LET f == FreeList(t)
    IN /\ ~f.cyclic
       /\ NoDuplicates(f.ids)
       /\ ToSet(f.ids) = FreeSlots(t)

\* The root has no sibling links, and a free slot keeps no link but its
\* next-free pointer.
LinksTidy(t) ==
    /\ (t.root # None /\ valid_node(t, t.root) = "Ok") =>
          at(t, t.root).prev_sib = None /\ at(t, t.root).next_sib = None
    /\ \A i \in FreeSlots(t) :
          /\ at(t, i).parent = None
          /\ at(t, i).prev_sib = None
          /\ at(t, i).first_child = None
          /\ at(t, i).last_child = None

\* The five invariants of the data model together, with tidy links.
WellFormed(t) ==
    /\ CountOk(t)
    /\ SiblingListsOk(t)
    /\ ParentsOk(t)
    /\ RootOk(t)
    /\ FreeListOk(t)
    /\ LinksTidy(t)

\* C1. Count invariant: in every reachable state len() equals the number
\* of occupied slots and the number of ids of the preorder traversal from
\* the root (0 without a root), and no occupied slot is missing from that
\* traversal.
C1_CountInvariant == CountOk(self)

\* C2. Sibling-list invariant: after every successful mutation, for every
\* occupied node the chain first_child -> next_sib -> ... is a finite
\* acyclic doubly-linked list of its children; first_child is the only
\* child with prev_sib = None and last_child the only one with next_sib =
\* None.
C2_SiblingListInvariant == SiblingListsOk(self)

\* C3. Parent invariant: after every successful mutation every occupied
\* slot is the root with parent = None, or has an occupied parent in whose
\* child list it occurs exactly once; parent links form no cycle.
C3_ParentInvariant == ParentsOk(self)

\* C4. Root/emptiness invariant: after every successful operation
\* get_root() is None iff len() = 0, and a root Some(r) names an occupied
\* slot.
C4_RootInvariant == RootOk(self)

\* C5. Free-list invariant: in every reachable state the chain from the
\* free head through next_sib ends at None without a cycle and visits
\* exactly the free slots, each once; no occupied slot is on it.
C5_FreeListInvariant == FreeListOk(self)

\* s without the members of S, order kept
Without(s, S) == SelectSeq(s, LAMBDA x : x \notin S)
\* The position of the first x in s (0 when absent)
IndexOf(s, x) ==
    IF \E k \in 1..Len(s) : s[k] = x
    THEN CHOOSE k \in 1..Len(s) : s[k] = x /\ \A j \in 1..(k - 1) : s[j] # x
    ELSE 0
\* s with block inserted after its first k elements
InsertAfter(s, k, block) == SubSeq(s, 1, k) \o block \o SubSeq(s, k + 1, Len(s))
\* The last call was op and it returned or ended with one of the outcomes
Did(op, outcomes) == last.op = op /\ last.res \in outcomes

\* C6. Cascading removal: for every occupied id, remove(id) succeeds,
\* reduces len() by exactly 1 + |descendants_of(id)| as computed before the
\* call, and afterwards no id of the former subtree is valid.
C6_CascadingRemoval ==
    /\ \A id \in Occupied(self), checks \in BOOLEAN :
          remove(self, checks, id).res # "InvalidId"
    /\ last.op = "remove" => last.res \in {"Ok", "InvalidId"}
    /\ Did("remove", {"Ok"}) =>
          LET d == descendants_of(old, last.id)
          IN /\ ~d.hang
             /\ len_of(self) = len_of(old) - (1 + Len(d.ids))
             /\ \A j \in {last.id} \cup ToSet(d.ids) :
                   valid_node(self, j) = "InvalidId"

\* The preorder a successful move is to produce: the old preorder with the
\* block of m's subtree taken out and put back at pos relative to ref.
MovedPreorder(t, m, pos, ref) ==
    LET block == sub_tree(t, m).ids
        rest == Without(Preorder(t).ids, ToSet(block))
        k == IndexOf(rest, ref)
        refLen == Len(Without(sub_tree(t, ref).ids, ToSet(block)))
    IN CASE pos = "FirstChild"    -> InsertAfter(rest, k, block)
         [] pos = "LastChild"     -> InsertAfter(rest, k + refLen - 1, block)
         [] pos = "SiblingBefore" -> InsertAfter(rest, k - 1, block)
         [] pos = "SiblingAfter"  -> InsertAfter(rest, k + refLen - 1, block)

\* In t, node m sits at pos relative to ref and its parent, prev_sib and
\* next_sib agree with its neighbours' links.
LinksAgree(t, m, pos, ref) ==
    LET n == at(t, m)
    IN /\ n.parent # None
       /\ n.parent = (IF pos \in {"FirstChild", "LastChild"} THEN ref
                      ELSE at(t, ref).parent)
       /\ IF n.prev_sib = None THEN at(t, n.parent).first_child = m
          ELSE at(t, n.prev_sib).next_sib = m
       /\ IF n.next_sib = None THEN at(t, n.parent).last_child = m
          ELSE at(t, n.next_sib).prev_sib = m
       /\ pos = "FirstChild" => n.prev_sib = None
       /\ pos = "LastChild" => n.next_sib = None
       /\ pos = "SiblingBefore" => n.next_sib = ref
       /\ pos = "SiblingAfter" => n.prev_sib = ref

\* C7. Successful move: for occupied m, a reference outside m's subtree and
\* every position, move_to(m, pos, ref) succeeds, leaves len() and the
\* subtree below m (ids, order, child counts) unchanged, turns the preorder
\* into the old one with m's block re-inserted at pos relative to ref, and
\* leaves m's parent, prev_sib and next_sib agreeing with its neighbours.
\* (A sibling position of the root is left out here: it is the case of C15.)
C7_SuccessfulMove ==
    /\ \A m \in Occupied(self), ref \in Occupied(self), pos \in Position :
          LET sub == sub_tree(self, m)
          IN (~sub.hang /\ ref \notin ToSet(sub.ids)) =>
                move_to(self, m, pos, ref).res = "Ok"
    /\ last.op = "move_to" => last.res \in {"Ok", "InvalidId", "CantMoveIntoChild"}
    /\ (Did("move_to", {"Ok"})
          /\ ~(last.pos \in {"SiblingBefore", "SiblingAfter"} /\ last.node = old.root)) =>
          /\ len_of(self) = len_of(old)
          /\ sub_tree_info(self, last.id) = sub_tree_info(old, last.id)
          /\ Preorder(self) = [Preorder(old) EXCEPT
                 !.ids = MovedPreorder(old, last.id, last.pos, last.node)]
          /\ LinksAgree(self, last.id, last.pos, last.node)

\* C8. Cycle rejection: for every occupied id, every position and every d
\* that is id or one of its descendants, move_to(id, pos, d) returns
\* CantMoveIntoChild and leaves slots, root, free list and len unchanged.
C8_CycleRejection ==
    /\ \A id \in Occupied(self), pos \in Position :
          LET sub == sub_tree(self, id)
          IN \A d \in {id} \cup ToSet(sub.ids) :
                LET r == move_to(self, id, pos, d)
                IN r.res = "CantMoveIntoChild" /\ r.t = self
    /\ Did("move_to", {"CantMoveIntoChild"}) => self = old

\* C9. Re-root: for every occupied id, make_root(id) succeeds, the tree
\* then holds exactly id and its former descendants in their former
\* preorder with their former child counts, get_root() = Some(id), and id
\* has no parent and no siblings.  (id being the root already is left out
\* here: it is the case of C10.)
C9_ReRoot ==
    /\ \A id \in Occupied(self), checks \in BOOLEAN :
          make_root(self, checks, id).res # "InvalidId"
    /\ (last.op = "make_root" /\ last.id # old.root) => last.res \in {"Ok", "InvalidId"}
    /\ (Did("make_root", {"Ok"}) /\ last.id # old.root) =>
          LET before == sub_tree_info(old, last.id)
          IN /\ ~before.hang
             /\ root = last.id
             /\ sub_tree_info(self, last.id) = before
             /\ Occupied(self) = {before.infos[k].id : k \in 1..Len(before.infos)}
             /\ len_of(self) = Len(before.infos)
             /\ at(self, last.id).parent = None
             /\ at(self, last.id).prev_sib = None
             /\ at(self, last.id).next_sib = None

\* C10. make_root on the current root: it succeeds and the tree (occupied
\* slots, links, len, root) is as before the call.
C10_MakeRootOfRoot ==
    /\ (root # None /\ valid_node(self, root) = "Ok") =>
          \A checks \in BOOLEAN : make_root(self, checks, root).res # "InvalidId"
    /\ (Did("make_root", {"Ok", "Panic", "Hang"}) /\ last.id = old.root) =>
          last.res = "Ok" /\ self = old

\* Supporting lemmas: C6 and C8 hold of every call made on a well-formed
\* tree, so they fail on the code only through the calls that break the
\* invariants C1 to C5.
C6_OnWellFormed ==
    /\ WellFormed(self) =>
          \A id \in Occupied(self), checks \in BOOLEAN :
              remove(self, checks, id).res = "Ok"
    /\ (Did("remove", {"Ok"}) /\ WellFormed(old)) =>
          LET d == descendants_of(old, last.id)
          IN /\ len_of(self) = len_of(old) - (1 + Len(d.ids))
             /\ \A j \in {last.id} \cup ToSet(d.ids) :
                   valid_node(self, j) = "InvalidId"

C8_OnWellFormed ==
    WellFormed(self) =>
        \A id \in Occupied(self), pos \in Position :
            \A d \in {id} \cup ToSet(sub_tree(self, id).ids) :
                LET r == move_to(self, id, pos, d)
                IN r.res = "CantMoveIntoChild" /\ r.t = self

\* C11. new_root: from every reachable state new_root(payload) completes
\* without failing and returns an id r with get_root() = Some(r), len() = 1,
\* r without parent, siblings and children, and every node of the previous
\* tree freed (r is the only occupied slot).
C11_NewRoot ==
    /\ last.op = "new_root" => last.res = "Ok"
    /\ Did("new_root", {"Ok"}) =>
          LET r == last.ret
          IN /\ get_root(self) = r
             /\ valid_node(self, r) = "Ok"
             /\ len_of(self) = 1
             /\ at(self, r) = Node_new(last.data)
             /\ Occupied(self) = {r}

\* Supporting lemma: new_root does what C11 says on every well-formed tree.
C11_OnWellFormed ==
    /\ WellFormed(self) =>
          \A data \in Data, checks \in BOOLEAN :
              new_root(self, checks, data).res = "Ok"
    /\ (Did("new_root", {"Ok"}) /\ WellFormed(old)) =>
          /\ get_root(self) = last.ret
          /\ len_of(self) = 1
          /\ at(self, last.ret) = Node_new(last.data)
          /\ Occupied(self) = {last.ret}

\* The last element of a non-empty sequence
Last(s) == s[Len(s)]

\* new_node(data, pos, N) with pos a child position does on t what C12 says.
ChildInsertOk(t, data, pos, N) ==
    LET before == children_of(t, N)
        r == new_node(t, data, pos, N)
        x == r.ret
        after == children_of(r.t, N)
    IN /\ r.res = "Ok"
       /\ x \notin Occupied(t)
       /\ data_at(r.t, x) = [res |-> "Ok", ret |-> data]
       /\ parent_of(r.t, x).ret = N
       /\ first_child_of(r.t, x).ret = None
       /\ last_child_of(r.t, x).ret = None
       /\ before.res = "Ok"
       /\ after.res = "Ok"
       /\ IF pos = "LastChild"
          THEN /\ last_child_of(r.t, N).ret = x
               /\ after.ids = Append(before.ids, x)
               /\ next_sib_of(r.t, x).ret = None
               /\ prev_sib_of(r.t, x).ret = last_child_of(t, N).ret
               /\ before.ids # <<>> =>
                     /\ last_child_of(t, N).ret = Last(before.ids)
                     /\ next_sib_of(r.t, Last(before.ids)).ret = x
          ELSE /\ first_child_of(r.t, N).ret = x
               /\ after.ids = <<x>> \o before.ids
               /\ prev_sib_of(r.t, x).ret = None
               /\ next_sib_of(r.t, x).ret = first_child_of(t, N).ret
               /\ before.ids # <<>> =>
                     prev_sib_of(r.t, Head(before.ids)).ret = x

\* C12. Child-position insert: on any occupied N, new_node(data, LastChild,
\* N) (resp. FirstChild) returns a new id x with parent N and no children,
\* N's last_child (resp. first_child) is x, x is linked in both directions to
\* the previous last (resp. first) child, and children_of(N) is the previous
\* child list with x appended (resp. prepended).
C12_ChildPositionInsert ==
    \A N \in Occupied(self), pos \in {"FirstChild", "LastChild"}, data \in Data :
        ChildInsertOk(self, data, pos, N)

\* Supporting lemma: C12 holds of every call made on a well-formed tree.
C12_OnWellFormed == WellFormed(self) => C12_ChildPositionInsert

\* new_node(data, pos, S) with pos a sibling position does on t what C13
\* says.
SiblingInsertOk(t, data, pos, S) ==
    LET p == parent_of(t, S).ret
        r == new_node(t, data, pos, S)
        x == r.ret
    IN /\ r.res = "Ok"
       /\ x \notin Occupied(t)
       /\ data_at(r.t, x) = [res |-> "Ok", ret |-> data]
       /\ first_child_of(r.t, x).ret = None
       /\ last_child_of(r.t, x).ret = None
       /\ p # None
       /\ valid_node(t, p) = "Ok"
       /\ parent_of(r.t, x).ret = p
       /\ parent_of(r.t, S).ret = p
       /\ LET before == children_of(t, p)
              after == children_of(r.t, p)
              k == IndexOf(before.ids, S)
          IN /\ before.res = "Ok"
             /\ after.res = "Ok"
             /\ k > 0
             /\ IF pos = "SiblingBefore"
                THEN /\ after.ids = InsertAfter(before.ids, k - 1, <<x>>)
                     /\ next_sib_of(r.t, x).ret = S
                     /\ prev_sib_of(r.t, S).ret = x
                     /\ prev_sib_of(r.t, x).ret = prev_sib_of(t, S).ret
                     /\ next_sib_of(r.t, S).ret = next_sib_of(t, S).ret
                     /\ first_child_of(r.t, p).ret =
                           (IF first_child_of(t, p).ret = S THEN x
                            ELSE first_child_of(t, p).ret)
                     /\ last_child_of(r.t, p).ret = last_child_of(t, p).ret
                ELSE /\ after.ids = InsertAfter(before.ids, k, <<x>>)
                     /\ prev_sib_of(r.t, x).ret = S
                     /\ next_sib_of(r.t, S).ret = x
                     /\ next_sib_of(r.t, x).ret = next_sib_of(t, S).ret
                     /\ prev_sib_of(r.t, S).ret = prev_sib_of(t, S).ret
                     /\ last_child_of(r.t, p).ret =
                           (IF last_child_of(t, p).ret = S THEN x
                            ELSE last_child_of(t, p).ret)
                     /\ first_child_of(r.t, p).ret = first_child_of(t, p).ret

\* C13. Sibling-position insert: on any occupied non-root S, new_node(data,
\* SiblingBefore, S) (resp. SiblingAfter) returns a new id x with the parent
\* of S, placed immediately before (resp. after) S in the parent's child
\* list, leaves S's other neighbour link unchanged, and makes x the parent's
\* first_child (resp. last_child) exactly when S was it.
C13_SiblingPositionInsert ==
    \A S \in Occupied(self) \ {root}, pos \in {"SiblingBefore", "SiblingAfter"},
       data \in Data :
        SiblingInsertOk(self, data, pos, S)

\* Supporting lemma: C13 holds of every call made on a well-formed tree.
C13_OnWellFormed == WellFormed(self) => C13_SiblingPositionInsert

\* C14. new_node with SiblingBefore or SiblingAfter and the current root as
\* reference returns CantBeRoot, allocates no slot and leaves len(), the
\* free list and all links unchanged.  (The root is an occupied slot here; a
\* reference that is no occupied slot is the case of C16.)
C14_NewNodeCantBeRoot ==
    /\ root \in Occupied(self) =>
          \A data \in Data, pos \in {"SiblingBefore", "SiblingAfter"} :
              new_node(self, data, pos, root) = Result(self, "CantBeRoot", None)
    /\ Did("new_node", {"CantBeRoot"}) => self = old

\* A call of new_node has returned CantBeRoot on a tree with a root, other
\* nodes and a free slot to allocate from.
C14_Witness ==
    /\ Did("new_node", {"CantBeRoot"})
    /\ root \in Occupied(self)
    /\ Cardinality(Occupied(self)) > 1
    /\ FreeSlots(self) # {}

\* C15. Every sibling-relative attach is rejected on the root: move_to(m,
\* SiblingBefore | SiblingAfter, root) and clone_to(c, SiblingBefore |
\* SiblingAfter, root) return CantBeRoot, and no successful move_to or
\* clone_to has attached a node as a sibling of the root.  (m is not the
\* root itself: moving the root next to itself is the case of C8.)
C15_SiblingOfRootRejected ==
    /\ root \in Occupied(self) =>
          \A pos \in {"SiblingBefore", "SiblingAfter"} :
              /\ \A m \in Occupied(self) \ {root} :
                    move_to(self, m, pos, root).res = "CantBeRoot"
              /\ \A c \in Occupied(self) :
                    clone_to(self, c, pos, root).res = "CantBeRoot"
    /\ (Did("move_to", {"Ok"}) \/ Did("clone_to", {"Ok"})) =>
          ~(last.pos \in {"SiblingBefore", "SiblingAfter"} /\ last.node = old.root)

\* Depths a caller passes to sub_tree_depth and sub_tree_depth_info.
Depths == 0..MaxSlots

\* Every public operation that takes an id returns InvalidId on t when id is
\* one of its id arguments, and the mutating ones leave t as it is.
InvalidIdFirst(t, id) ==
    /\ descendants_of(t, id).res = "InvalidId"
    /\ sub_tree(t, id).res = "InvalidId"
    /\ sub_tree_info(t, id).res = "InvalidId"
    /\ \A depth \in Depths :
          /\ sub_tree_depth(t, id, depth).res = "InvalidId"
          /\ sub_tree_depth_info(t, id, depth).res = "InvalidId"
    /\ children_of(t, id).res = "InvalidId"
    /\ parent_of(t, id).res = "InvalidId"
    /\ next_sib_of(t, id).res = "InvalidId"
    /\ prev_sib_of(t, id).res = "InvalidId"
    /\ first_child_of(t, id).res = "InvalidId"
    /\ last_child_of(t, id).res = "InvalidId"
    /\ data_at(t, id).res = "InvalidId"
    /\ \A data \in Data, pos \in Position :
          new_node(t, data, pos, id) = Result(t, "InvalidId", None)
    /\ \A checks \in BOOLEAN :
          /\ remove(t, checks, id) = Result(t, "InvalidId", None)
          /\ make_root(t, checks, id) = Result(t, "InvalidId", None)
    /\ \A other \in Ids, pos \in Position :
          /\ move_to(t, id, pos, other) = Result(t, "InvalidId", None)
          /\ move_to(t, other, pos, id) = Result(t, "InvalidId", None)
          /\ clone_to(t, id, pos, other) = Result(t, "InvalidId", None)
          /\ clone_to(t, other, pos, id) = Result(t, "InvalidId", None)

\* C16. InvalidId is checked before any mutation: every public operation
\* taking an id returns InvalidId when an id argument is out of range or
\* names a free slot, and then slots, free list, root and len are unchanged;
\* for move_to and clone_to also when only the second id is invalid.
C16_InvalidIdFirst ==
    /\ \A id \in Ids \ Occupied(self) : InvalidIdFirst(self, id)
    /\ last.res = "InvalidId" => self = old

\* move_to has returned InvalidId on a tree holding occupied slots and a
\* free slot.
C16_Witness ==
    /\ Did("move_to", {"InvalidId"})
    /\ Occupied(self) # {}
    /\ FreeSlots(self) # {}

\* The ids of a sequence of NodeInfo
InfoIds(infos) == [k \in 1..Len(infos) |-> infos[k].id]

\* In t2 the child list that ref belongs to (for a sibling position) or
\* owns (for a child position) is the one of t with x put in at pos.
Attached(t, t2, x, pos, ref) ==
    LET p == IF pos \in {"FirstChild", "LastChild"} THEN ref
             ELSE parent_of(t, ref).ret
    IN /\ p # None
       /\ valid_node(t, p) = "Ok"
       /\ LET b == children_of(t, p)
              a == children_of(t2, p)
              k == IndexOf(b.ids, ref)
          IN /\ b.res = "Ok"
             /\ a.res = "Ok"
             /\ CASE pos = "FirstChild"    -> a.ids = <<x>> \o b.ids
                  [] pos = "LastChild"     -> a.ids = Append(b.ids, x)
                  [] pos = "SiblingBefore" ->
                        k > 0 /\ a.ids = InsertAfter(b.ids, k - 1, <<x>>)
                  [] pos = "SiblingAfter"  ->
                        k > 0 /\ a.ids = InsertAfter(b.ids, k, <<x>>)

\* clone_to(s, pos, ref) does on t what C17 says.
CloneOk(t, s, pos, ref) ==
    LET before == sub_tree_info(t, s)
        c == clone_to(t, s, pos, ref)
        after == sub_tree_info(c.t, c.ret)
        cloned == ToSet(InfoIds(after.infos))
        source == ToSet(InfoIds(before.infos))
    IN /\ ~before.hang
       /\ c.res = "Ok"
       /\ c.ret \notin Occupied(t)
       /\ ~after.hang
       /\ Len(after.infos) = Len(before.infos)
       /\ \A k \in 1..Len(after.infos) :
             /\ after.infos[k].id \notin Occupied(t)
             /\ after.infos[k].child_count = before.infos[k].child_count
             /\ after.infos[k].depth = before.infos[k].depth
             /\ data_at(c.t, after.infos[k].id) = data_at(t, before.infos[k].id)
       /\ len_of(c.t) = len_of(t) + Len(before.infos)
       /\ LinksAgree(c.t, c.ret, pos, ref)
       /\ Attached(t, c.t, c.ret, pos, ref)
       /\ \A i \in source :
             /\ data_at(c.t, i) = data_at(t, i)
             /\ parent_of(c.t, i) = parent_of(t, i)
             /\ children_of(t, i).res = "Ok"
             /\ children_of(c.t, i).res = "Ok"
             /\ Without(children_of(c.t, i).ids, cloned) = children_of(t, i).ids

\* C17. Clone: for occupied s and reference ref (which may lie inside s's
\* subtree), clone_to(s, pos, ref) returns a new id c whose subtree has, in
\* preorder, the payloads, child counts and depths s's subtree had before
\* the call, uses only ids that were not occupied before, increases len() by
\* the size of s's subtree and is attached at pos relative to ref; the nodes
\* of the source subtree keep their payloads, their parents and, among
\* themselves, their child lists.  (A sibling position of the root is left
\* out here: it is the case of C15.)
C17_Clone ==
    \A s \in Occupied(self), ref \in Occupied(self), pos \in Position :
        ~SiblingOfRoot(pos, ref) => CloneOk(self, s, pos, ref)

\* Supporting lemma: C17 holds of every call made on a well-formed tree
\* that leaves room for the clone.
C17_OnWellFormed ==
    WellFormed(self) =>
        \A s \in Occupied(self), ref \in Occupied(self), pos \in Position :
            ~SiblingOfRoot(pos, ref) => CloneOk(self, s, pos, ref)

\* --------------------------------------------------------- serialization
\* The scalar codecs come from the bytebuffer crate (`use bytebuffer::*`),
\* which is not part of src/.  They are modelled by their contract: a bool
\* is one byte, a u32 is four bytes, the payload type is a one-byte type,
\* and each decoder reads back what its encoder wrote and fails on a byte
\* source that ends too early.  The byte order chosen for u32 is the same in
\* both directions.
bool_into_bytes(b) == <<IF b THEN 1 ELSE 0>>

\* n as u32, in four bytes
u32_into_bytes(n) == [k \in 1..4 |-> (n \div (256 ^ (k - 1))) % 256]

T_into_bytes(data) == <<data>>

\* The decoders return [res, val, rest]: res is "Ok" or "ByteErr", rest the
\* bytes not yet consumed.
bool_from_bytes(bytes) ==
    IF bytes = <<>> THEN [res |-> "ByteErr", val |-> FALSE, rest |-> bytes]
    ELSE [res |-> "Ok", val |-> Head(bytes) # 0, rest |-> Tail(bytes)]

u32_from_bytes(bytes) ==
    IF Len(bytes) < 4 THEN [res |-> "ByteErr", val |-> 0, rest |-> bytes]
    ELSE [res |-> "Ok",
          val |-> bytes[1] + 256 * bytes[2] + 65536 * bytes[3] + 16777216 * bytes[4],
          rest |-> SubSeq(bytes, 5, Len(bytes))]

T_from_bytes(bytes) ==
    IF bytes = <<>> THEN [res |-> "ByteErr", val |-> None, rest |-> bytes]
    ELSE [res |-> "Ok", val |-> Head(bytes), rest |-> Tail(bytes)]

\* TreeIter::next over the NodeInfo list: the bytes of each node in turn,
\* payload then child_count as u32.  data_at(node.id).unwrap() panics on an
\* id that names no occupied slot.  [res, bytes]
RECURSIVE TreeIter_next(_, _)
TreeIter_next(t, infos) ==
    IF infos = <<>> THEN [res |-> "Ok", bytes |-> <<>>]
    ELSE LET node == Head(infos)
             data == data_at(t, node.id)
         IN IF data.res # "Ok" THEN [res |-> "Panic", bytes |-> <<>>]
            ELSE LET rest == TreeIter_next(t, Tail(infos))
                 IN IF rest.res # "Ok" THEN rest
                    ELSE [res |-> "Ok",
                          bytes |-> T_into_bytes(data.ret)
                                    \o u32_into_bytes(node.child_count)
                                    \o rest.bytes]

\* TreeIter::new followed by the iteration to its end: [res, bytes], res
\* being "Ok", "Panic" (sub_tree_info(root).unwrap() or data_at(..).unwrap()
\* on Err) or "Hang" (sub_tree_info does not terminate).
into_bytes(t) ==
    LET r == get_root(t)
        info == IF r # None THEN sub_tree_info(t, r)
                ELSE [res |-> "Ok", hang |-> FALSE, infos |-> <<>>]
    IN IF info.res # "Ok" THEN [res |-> "Panic", bytes |-> <<>>]
       ELSE IF info.hang THEN [res |-> "Hang", bytes |-> <<>>]
       ELSE LET body == TreeIter_next(t, info.infos)
            IN IF body.res # "Ok" THEN body
               ELSE [res |-> "Ok",
                     bytes |-> bool_into_bytes(r # None) \o body.bytes]

\* from_bytes_helper: [res, t, rest].  from_bytes_loop is its `for` loop with
\* n iterations left.
RECURSIVE from_bytes_helper(_, _, _)
RECURSIVE from_bytes_loop(_, _, _, _)
from_bytes_loop(t, parent, n, bytes) ==
    IF n = 0 THEN [res |-> "Ok", t |-> t, rest |-> bytes]
    ELSE LET a == T_from_bytes(bytes)
         IN IF a.res # "Ok" THEN [res |-> "ByteErr", t |-> t, rest |-> a.rest]
            ELSE LET g == get_node(t, a.val)
                     t1 == append_child(g.t, parent, g.id)
                     below == from_bytes_helper(t1, g.id, a.rest)
                 IN IF below.res # "Ok" THEN below
                    ELSE from_bytes_loop(below.t, parent, n - 1, below.rest)

from_bytes_helper(t, parent, bytes) ==
    LET n == u32_from_bytes(bytes)
    IN IF n.res # "Ok" THEN [res |-> "ByteErr", t |-> t, rest |-> n.rest]
       ELSE from_bytes_loop(t, parent, n.val, n.rest)

\* from_bytes: [res, t]
from_bytes(bytes) ==
    LET b == bool_from_bytes(bytes)
    IN IF b.res # "Ok" THEN [res |-> "ByteErr", t |-> Tree_new]
       ELSE IF b.val
       THEN LET a == T_from_bytes(b.rest)
            IN IF a.res # "Ok" THEN [res |-> "ByteErr", t |-> Tree_new]
               ELSE LET h == from_bytes_helper(new_with_root(a.val), 0, a.rest)
                    IN [res |-> h.res, t |-> h.t]
       ELSE [res |-> "Ok", t |-> Tree_new]

\* The payload and the child count of every node of t, in preorder from the
\* root.
Shape(t) ==
    IF get_root(t) = None THEN <<>>
    ELSE LET infos == sub_tree_info(t, get_root(t)).infos
         IN [k \in 1..Len(infos) |->
                [data |-> data_at(t, infos[k].id).ret,
                 child_count |-> infos[k].child_count]]

\* from_bytes(into_bytes(t)) succeeds and gives a tree with the len, the
\* payloads in preorder and the child counts of t; an empty t encodes to one
\* false byte.
RoundTripOk(t) ==
    LET e == into_bytes(t)
        d == from_bytes(e.bytes)
    IN /\ e.res = "Ok"
       /\ get_root(t) = None => e.bytes = bool_into_bytes(FALSE)
       /\ d.res = "Ok"
       /\ len_of(d.t) = len_of(t)
       /\ Shape(d.t) = Shape(t)

\* C18. Serialization round trip: for every reachable tree T, the empty tree
\* included (which encodes to exactly one false byte), from_bytes(
\* into_bytes(T)) succeeds and yields a tree with the same len(), the same
\* payloads in the same preorder and the same child count per node.
C18_RoundTrip == RoundTripOk(self)

\* C19. The encoder cannot fail: in every reachable state, after remove of
\* the root and after make_root included, into_bytes() builds its iterator
\* and yields a finite byte sequence without panicking.
C19_EncoderCannotFail == into_bytes(self).res = "Ok"

\* Supporting lemma: the round trip holds, and so the encoder does not fail,
\* on every well-formed tree.
C18_OnWellFormed == WellFormed(self) => RoundTripOk(self)

\* Every traversal of t from id terminates and visits at most len() nodes.
TraversalsEnd(t, id) ==
    /\ LET d == descendants_of(t, id)
       IN ~d.hang /\ Len(d.ids) <= len_of(t)
    /\ LET s == sub_tree(t, id)
       IN ~s.hang /\ Len(s.ids) <= len_of(t)
    /\ LET i == sub_tree_info(t, id)
       IN ~i.hang /\ Len(i.infos) <= len_of(t)
    /\ \A depth \in Depths :
          /\ LET s == sub_tree_depth(t, id, depth)
             IN ~s.hang /\ Len(s.ids) <= len_of(t)
          /\ LET i == sub_tree_depth_info(t, id, depth)
             IN ~i.hang /\ Len(i.infos) <= len_of(t)
    /\ LET c == children_of(t, id)
       IN c.res = "Ok" /\ Len(c.ids) <= len_of(t)

\* C20. Termination: in every state reachable by successful mutations every
\* traversal (descendants_of, sub_tree, sub_tree_info, sub_tree_depth,
\* sub_tree_depth_info, children_of) terminates and visits at most len()
\* nodes, every mutation that traverses (remove, move_to, clone_to,
\* new_root, make_root) terminates, and no sibling chain loops.
C20_Termination ==
    /\ \A id \in Occupied(self) :
          TraversalsEnd(self, id) /\ ~ChildList(self, id).cyclic
    /\ last.res # "Hang"

\* Supporting lemma: on every well-formed tree the traversals terminate and
\* no mutation fails to.
C20_OnWellFormed ==
    /\ WellFormed(self) => \A id \in Occupied(self) : TraversalsEnd(self, id)
    /\ WellFormed(old) => last.res # "Hang"

\* The traversals of t from id agree as C21 says.  A traversal that does not
\* terminate returns nothing to compare (that is the subject of C20), so the
\* comparison is made where they all return; a panic is a failure.
TraversalsAgree(t, id) ==
    LET d == descendants_of(t, id)
        s == sub_tree(t, id)
        i == sub_tree_info(t, id)
        c == children_of(t, id)
    IN (~d.hang /\ ~s.hang /\ ~i.hang /\ c.res # "Hang") =>
          /\ s.ids = <<id>> \o d.ids
          /\ InfoIds(i.infos) = s.ids
          /\ i.infos[1].depth = 0
          /\ \A k \in 2..Len(i.infos) :
                \E j \in 1..(k - 1) :
                    /\ i.infos[j].id = parent_of(t, i.infos[k].id).ret
                    /\ i.infos[k].depth = i.infos[j].depth + 1
          /\ \A k \in 1..Len(i.infos) :
                LET ck == children_of(t, i.infos[k].id)
                IN ck.res = "Ok" /\ i.infos[k].child_count = Len(ck.ids)
          /\ c.res = "Ok"
          /\ c.ids = InfoIds(SelectSeq(i.infos, LAMBDA e : e.depth = 1))

\* C21. Traversal consistency: for every occupied id, sub_tree(id) is id
\* followed by descendants_of(id); sub_tree_info(id) lists the same ids in
\* the same order, with depth relative to id (id at depth 0, every other
\* entry one below its parent) and child_count equal to the length of
\* children_of(entry); children_of(id) is the depth-1 entries of
\* sub_tree_info(id) in order.
C21_TraversalConsistency ==
    \A id \in Occupied(self) : TraversalsAgree(self, id)

\* Supporting lemma: on every well-formed tree the traversals terminate and
\* agree.
C21_OnWellFormed ==
    WellFormed(self) =>
        \A id \in Occupied(self) :
            TraversalsEnd(self, id) /\ TraversalsAgree(self, id)

\* sub_tree_depth(id, d) and sub_tree_depth_info(id, d) are on t the pruning
\* of sub_tree_info(id) that C22 describes.  The comparison is made where
\* the traversals return (their termination is the subject of C20).
DepthPruned(t, id, d) ==
    LET full == sub_tree_info(t, id)
        sd == sub_tree_depth(t, id, d)
        si == sub_tree_depth_info(t, id, d)
        kept == SelectSeq(full.infos, LAMBDA e : e.depth <= d)
    IN /\ sd.res = "Ok"
       /\ si.res = "Ok"
       /\ d = 0 => ~sd.hang /\ sd.ids = <<id>>
       /\ (d = 0 /\ ~si.hang) => InfoIds(si.infos) = <<id>>
       /\ ~full.hang =>
             /\ ~sd.hang
             /\ ~si.hang
             /\ sd.ids = InfoIds(kept)
             /\ si.infos = kept
             /\ \A k \in 1..Len(si.infos) :
                   LET c == ChildList(t, si.infos[k].id)
                   IN ~c.cyclic /\ si.infos[k].child_count = Len(c.ids)

RECURSIVE FreshNodes(_, _)
FreshNodes(t, n) ==
    \/ n = 0
    \/ \A node \in Occupied(t), pos \in Position :
          LET r == new_node(t, 0, pos, node)
          IN r.res = "Ok" =>
                /\ r.ret = get_node(t, 0).id
                /\ r.ret \notin Occupied(t)
                /\ FreshNodes(r.t, n - 1)

\* C23. Slot lifecycle: after any sequence of public operations the slot
\* that get_node hands out is free or newly appended, never a currently
\* occupied one, so that an allocation overwrites no live payload and no two
\* live nodes share an id: in every reachable state, any run of further
\* new_node calls gets only slots that are not occupied when handed out.
C23_SlotLifecycle ==
    /\ \A data \in Data : get_node(self, data).id \notin Occupied(self)
    /\ FreshNodes(self, MaxSlots)

\* On a well-formed tree every allocation is fresh (get_node is not at fault).
C23_OnWellFormed == WellFormed(self) => FreshNodes(self, MaxSlots)

\* The link fields of slot i of t.
LinksOf(t, i) ==
    {at(t, i).parent, at(t, i).prev_sib, at(t, i).next_sib,
     at(t, i).first_child, at(t, i).last_child}

\* C24. No dangling links: in every state reachable by public operations,
\* no link field (parent, prev_sib, next_sib, first_child, last_child) of an
\* occupied slot refers to a free slot; in particular none of the new root
\* after make_root and none of the moved node after move_to.
C24_NoDanglingLinks ==
    \A i \in Occupied(self) : LinksOf(self, i) \subseteq Occupied(self) \cup {None}

\* On a well-formed tree no link dangles.
C24_OnWellFormed ==
    WellFormed(self) =>
        \A i \in Occupied(self) : LinksOf(self, i) \cap FreeSlots(self) = {}

Reverse(s) == [k \in 1..Len(s) |-> s[Len(s) + 1 - k]]

\* The free list of t is the stack of the freed slots, most recent first; a
\* creation on t pops it, and grows the store, with the number of slots as
\* the new id, only when no freed slot is left.
PopsBeforeGrowing(t) ==
    LET g == get_node(t, 0)
        f == FreeList(t)
    IN IF Len(g.t.nodes) > Len(t.nodes)
       THEN FreeSlots(t) = {} /\ g.id = Len(t.nodes)
       ELSE /\ ~f.cyclic
            /\ g.id = Head(f.ids)
            /\ g.id \in FreeSlots(t)
            /\ FreeList(g.t).ids = Tail(f.ids)

\* PopsBeforeGrowing holds on t and on every tree that a run of at most n
\* further new_node calls makes of it.
RECURSIVE PopsRun(_, _)
PopsRun(t, n) ==
    /\ PopsBeforeGrowing(t)
    /\ \/ n = 0
       \/ \A node \in Occupied(t), pos \in Position :
             LET r == new_node(t, 0, pos, node)
             IN r.res = "Ok" => PopsRun(r.t, n - 1)

\* remove(id) on t, giving t2, pushed id's descendants in traversal order
\* and id last.
PushedLast(t, t2, id) ==
    LET d == descendants_of(t, id)
    IN /\ ~d.hang
       /\ FreeList(t2).ids = <<id>> \o Reverse(d.ids) \o FreeList(t).ids

\* C25. Allocation order: a node creation grows the backing store only when
\* the free list is empty, and then the new id is the previous number of
\* slots; otherwise it returns the most recently freed slot (LIFO), so that
\* the first node created after remove(id) receives id, and new_root on a
\* non-empty tree returns the old root's id.
C25_AllocationOrder ==
    /\ PopsRun(self, MaxSlots)
    /\ Did("remove", {"Ok"}) =>
          /\ PushedLast(old, self, last.id)
          /\ \A data \in Data : get_node(self, data).id = last.id
    /\ (Did("new_root", {"Ok"}) /\ old.root # None) => last.ret = old.root
    /\ Did("new_node", {"Ok"}) => last.ret = get_node(old, last.data).id

\* On well-formed trees the allocation order is the one C25 describes.
C25_OnWellFormed ==
    /\ WellFormed(self) => PopsRun(self, MaxSlots)
    /\ WellFormed(old) =>
          /\ Did("remove", {"Ok"}) =>
                /\ PushedLast(old, self, last.id)
                /\ \A data \in Data : get_node(self, data).id = last.id
          /\ (Did("new_root", {"Ok"}) /\ old.root # None) => last.ret = old.root

\* t2 is t with the subtree of the non-root node id taken out, as C26
\* describes it.
RemoveFrame(t, t2, id) ==
    LET block == sub_tree(t, id)
        gone == ToSet(block.ids)
        p == parent_of(t, id).ret
    IN /\ ~block.hang
       /\ \A i \in Occupied(t) \ gone :
             /\ i \in Occupied(t2)
             /\ data_at(t2, i) = data_at(t, i)
             /\ parent_of(t2, i) = parent_of(t, i)
       /\ ~Preorder(t).hang
       /\ Preorder(t2) = [Preorder(t) EXCEPT !.ids = Without(Preorder(t).ids, gone)]
       /\ p # None
       /\ valid_node(t, p) = "Ok"
       /\ LET before == children_of(t, p)
              after == children_of(t2, p)
              k == IndexOf(before.ids, id)
              prev == IF k > 1 THEN before.ids[k - 1] ELSE None
              next == IF k < Len(before.ids) THEN before.ids[k + 1] ELSE None
          IN /\ before.res = "Ok"
             /\ after.res = "Ok"
             /\ k > 0
             /\ after.ids = Without(before.ids, {id})
             /\ prev # None => next_sib_of(t2, prev) = [res |-> "Ok", ret |-> next]
             /\ next # None => prev_sib_of(t2, next) = [res |-> "Ok", ret |-> prev]
             /\ first_child_of(t2, p).ret =
                   (IF k = 1 THEN next ELSE first_child_of(t, p).ret)
             /\ last_child_of(t2, p).ret =
                   (IF k = Len(before.ids) THEN prev ELSE last_child_of(t, p).ret)

\* C26. Remove frame: for every occupied non-root id, remove(id) leaves
\* every node outside id's subtree occupied with the same payload and the
\* same parent, and the preorder traversal from the root afterwards is the
\* old one with the block of id's subtree deleted; id's former previous and
\* next siblings become adjacent, and the parent's first_child/last_child
\* changes only when id was at that end.
C26_RemoveFrame ==
    \A id \in Occupied(self) \ {self.root}, checks \in BOOLEAN :
        LET r == remove(self, checks, id)
        IN r.res = "Ok" => RemoveFrame(self, r.t, id)

\* On well-formed trees remove has the frame C26 describes.
C26_OnWellFormed ==
    WellFormed(self) =>
        \A id \in Occupied(self) \ {self.root}, checks \in BOOLEAN :
            LET r == remove(self, checks, id)
            IN r.res = "Ok" /\ RemoveFrame(self, r.t, id)
====
